---- MODULE Spec2Model ----
(***************************************************************************)
(* Model of the MobileWallet holder application: the secure storage        *)
(* layer (services/secureStorage.js), the DID manager                      *)
(* (services/didManager.js), the credential / presentation signing         *)
(* service (services/vcService.js), the key utilities (utils/crypto.js)    *)
(* and the screens that call them.                                         *)
(*                                                                         *)
(* Every asynchronous service call is a process whose program counter      *)
(* advances by one awaited operation per step, so that calls started       *)
(* while another one is suspended at an await interleave exactly as the    *)
(* JavaScript event loop allows.                                           *)
(***************************************************************************)
EXTENDS Integers, Sequences, FiniteSets, TLC

VARIABLES
  store,      \* SecureStore: storage key -> stored value (None when absent)
  proc,       \* the service calls in flight, one record per caller
  requests,   \* bodies of the requests handed to apiClient.post
  ledger,     \* DIDs whose registration request was answered with success
  clock,      \* Date.now()
  calls,      \* number of service calls started so far
  faults,     \* number of storage / library / network failures so far
  removed,    \* a clearWallet or deleteCredential call has been started
  presented,  \* presentation tokens handed out by createPresentationLocally
  home,       \* state of the Home screen (app/index.js)
  verify,     \* state of the Verify screen
  walletScreen, \* state of the Wallet screen (app/credentials.js)
  issueScreen, \* state of the Issue screen
  alert,      \* the last Alert.alert shown
  logs        \* logger.logs, the activity log the screens display

uiVars == <<home, verify, walletScreen, issueScreen, alert, logs>>

vars == <<store, proc, requests, ledger, clock, calls, faults, removed,
          presented, home, verify, walletScreen, issueScreen, alert, logs>>

----------------------------------------------------------------------------
(* Bounds *)

MaxKeys == 2        \* distinct outcomes of the random source
MaxCalls == 2       \* service calls per behaviour
MaxFaults == 1      \* injected failures per behaviour
MaxClock == 1       \* milliseconds the clock may advance
MaxRequests == 3    \* registrar requests one call may send
MaxAddressLen == 2  \* characters of an address handed to createDID
MaxStored == 1      \* credentials an earlier session left in the wallet
MaxClaims == 1      \* claims the Issue form holds

Procs == {"p1", "p2"}

----------------------------------------------------------------------------
(* Values *)

None == [kind |-> "none"]             \* null / absent item
Absent == [kind |-> "absent"]         \* property that was never assigned
Undefined == [kind |-> "undefined"]   \* argument that was not supplied
Str(s) == [kind |-> "string", s |-> s]

Falsy(v) == v = None \/ v = Absent \/ v = Undefined \/ v = Str("")

STORAGE_KEYS ==
  [PRIVATE_KEY        |-> "ssi_private_key",
   PUBLIC_KEY         |-> "ssi_public_key",
   DID                |-> "ssi_did",
   ADDRESS            |-> "ssi_address",
   CREDENTIALS        |-> "ssi_credentials",
   WALLET_INITIALIZED |-> "ssi_wallet_initialized",
   BIOMETRIC_ENABLED  |-> "ssi_biometric_enabled"]

StorageKeys == {STORAGE_KEYS[n] : n \in DOMAIN STORAGE_KEYS}

\* new ethers.Wallet(privateKeyHex): the key material derived from one
\* 32-byte secret; wallet.address is the mixed-case checksum address.
Wallet(k) ==
  [privateKey |-> [kind |-> "privateKey", key |-> k],
   publicKey  |-> [kind |-> "publicKey", key |-> k],
   address    |-> [kind |-> "address", text |-> <<"A", "b", ToString(k)>>]]

\* one character of String.prototype.toLowerCase
toLowerChar(c) == CASE c = "A" -> "a" [] c = "B" -> "b" [] OTHER -> c

\* a toLowerCase that leaves the text as it is
toLowerCaseKeep(address) == address

toLowerCase(address) ==
  [address EXCEPT !.text = [i \in 1..Len(@) |-> toLowerChar(@[i])]]

\* `did:ethr:VoltusWave:${address.toLowerCase()}`
createDID(address) ==
  [kind |-> "did",
   text |-> <<"did:ethr:VoltusWave:">> \o toLowerCase(address).text]

generateKeyPair(k) ==
  LET wallet == Wallet(k) IN
  [privateKey |-> wallet.privateKey,
   publicKey  |-> wallet.publicKey,
   address    |-> wallet.address,
   did        |-> [kind |-> "did",
                   text |-> <<"did:ethr:VoltusWave:">>
                              \o toLowerCase(wallet.address).text]]

\* generateSimpleKeyPair: no publicKey in the result
generateSimpleKeyPair(k) ==
  LET wallet == Wallet(k) IN
  [privateKey |-> wallet.privateKey,
   address    |-> wallet.address,
   did        |-> [kind |-> "did",
                   text |-> <<"did:ethr:VoltusWave:">>
                              \o toLowerCase(wallet.address).text]]

\* hashData: SHA-256 of the seed, here the index of the key it yields
hashData(seed) == (seed % MaxKeys) + 1

\* createWalletFromSeed: did is `did:ethr:${wallet.address.toLowerCase()}`
createWalletFromSeed(seed) ==
  LET wallet == Wallet(hashData(seed)) IN
  [privateKey |-> wallet.privateKey,
   publicKey  |-> wallet.publicKey,
   address    |-> wallet.address,
   did        |-> [kind |-> "did",
                   text |-> <<"did:ethr:">> \o toLowerCase(wallet.address).text]]

\* ethers.Wallet.fromPhrase: the key a mnemonic phrase stands for
fromPhrase(mnemonic) == Wallet(mnemonic)

\* restoreFromMnemonic: did is `did:ethr:${wallet.address.toLowerCase()}`
restoreFromMnemonic(mnemonic) ==
  LET wallet == fromPhrase(mnemonic) IN
  [privateKey |-> wallet.privateKey,
   publicKey  |-> wallet.publicKey,
   address    |-> wallet.address,
   did        |-> [kind |-> "did",
                   text |-> <<"did:ethr:">> \o toLowerCase(wallet.address).text]]

\* wallet.signMessage: an Ethereum personal-message signature (r, s, v)
signData(privateKey, data) ==
  [kind |-> "signature", scheme |-> "eth_signMessage",
   key |-> privateKey.key, message |-> data]

\* did-jwt token: header (alg), payload with the asserted signer (iss) and
\* the signature made with the key the signer was built from
SignJwt(payload, signer) ==
  [kind |-> "jwt", alg |-> signer.alg, iss |-> signer.did,
   payload |-> payload, key |-> signer.key]

JSONstringify(list) == [kind |-> "json", text |-> list]
JSONparse(json) == json.text

----------------------------------------------------------------------------
(* Inputs *)

ClaimsInputs == { {}, {<<"role", "admin">>} }
ChallengeInputs == {Undefined, Str("c1")}

----------------------------------------------------------------------------
(* Process records *)

Idle ==
  [op |-> "idle", pc |-> "idle", step |-> 0, handler |-> "",
   claims |-> {}, credentials |-> <<>>, challenge |-> Undefined,
   credentialId |-> "", data |-> "",
   kp |-> None, did |-> None, privateKey |-> None,
   address |-> None, existing |-> <<>>,
   signature |-> None, payload |-> None, jwt |-> None, credential |-> None, result |-> None, error |-> "",
   wrote |-> {}, posts |-> 0, reg |-> "none", before |-> <<>>]

\* secureStorage.getCredentials evaluated on a storage snapshot
StoredCredentials(s) ==
  IF s[STORAGE_KEYS.CREDENTIALS] = None THEN <<>>
  ELSE JSONparse(s[STORAGE_KEYS.CREDENTIALS])

\* ES256KSigner(Buffer.from(privateKey.slice(2), 'hex')) with the DID and alg
Issuer(did, privateKey) ==
  [did |-> did, alg |-> "ES256K",
   key |-> IF privateKey.kind = "privateKey" THEN privateKey.key ELSE 0]

VcPayload(did, credentialData, now) ==
  [sub |-> did, nbf |-> now \div 1000,
   vc |-> [context |-> <<"https://www.w3.org/2018/credentials/v1">>,
           type |-> <<"VerifiableCredential">>,
           credentialSubject |-> credentialData]]

\* a map that hands the tokens over in reverse order
MapJwtReversed(credentials) ==
  [i \in 1..Len(credentials) |-> credentials[Len(credentials) + 1 - i].jwt]

\* credentials.map(c => c.jwt)
MapJwt(credentials) == [i \in 1..Len(credentials) |-> credentials[i].jwt]

\* a payload that sets the nonce whatever the challenge is
VpPayloadNonceAlways(credentials, challenge) ==
  [vp |-> [context |-> <<"https://www.w3.org/2018/credentials/v1">>,
           type |-> <<"VerifiablePresentation">>,
           verifiableCredential |-> MapJwt(credentials)],
   nonce |-> challenge]

VpPayload(credentials, challenge) ==
  [vp |-> [context |-> <<"https://www.w3.org/2018/credentials/v1">>,
           type |-> <<"VerifiablePresentation">>,
           verifiableCredential |-> MapJwt(credentials)],
   nonce |-> IF ~Falsy(challenge) THEN challenge ELSE Absent]

\* the credential object issueCredentialLocally builds around the token
Credential(did, credentialData, jwt, now) ==
  [id |-> ToString(now), issuer |-> did, subject |-> did,
   data |-> credentialData, jwt |-> jwt, addedAt |-> now]

\* a push that drops what was stored before and keeps the new credential
PushAlone(existingCredentials, credential, now) ==
  <<[credential EXCEPT !.id = ToString(now), !.addedAt = now]>>

\* existingCredentials.push({...credential, id: Date.now().toString(), addedAt})
Push(existingCredentials, credential, now) ==
  Append(existingCredentials,
         [credential EXCEPT !.id = ToString(now), !.addedAt = now])

\* existingCredentials.filter(c => c.id !== credentialId)
Filter(existingCredentials, credentialId) ==
  SelectSeq(existingCredentials, LAMBDA c : c.id # credentialId)

\* the list an earlier session left behind: n credentials the wallet issued
\* to itself, one per millisecond, before this session's clock started
RECURSIVE EarlierCredentials(_, _)
EarlierCredentials(kp, n) ==
  IF n = 0 THEN <<>>
  ELSE LET credentialData == {<<"role", "admin">>}
           jwt == SignJwt(VcPayload(kp.did, credentialData, 0 - n),
                          Issuer(kp.did, kp.privateKey))
       IN Push(EarlierCredentials(kp, n - 1),
               Credential(kp.did, credentialData, jwt, 0 - n), 0 - n)

NoAlert == [title |-> "", message |-> "", did |-> None]

\* the storage a completed saveWalletKeys leaves behind
SavedWallet(kp) ==
  [k \in StorageKeys |->
     CASE k = STORAGE_KEYS.PRIVATE_KEY -> kp.privateKey
       [] k = STORAGE_KEYS.PUBLIC_KEY -> kp.publicKey
       [] k = STORAGE_KEYS.ADDRESS -> kp.address
       [] k = STORAGE_KEYS.DID -> kp.did
       [] k = STORAGE_KEYS.WALLET_INITIALIZED -> Str("true")
       [] OTHER -> None]

\* The application starts on empty storage (first launch) or on the wallet
\* that an earlier session created; SecureStore outlives the process.
\* the Home screen before checkWallet has run
HomeInitial == [hasWallet |-> FALSE, walletInfo |-> None, isCreatingDID |-> FALSE]

\* the Verify screen before loadData has run
VerifyInitial ==
  [mode |-> "create", credentials |-> <<>>,
   selectedCredentials |-> <<>>, walletInfo |-> None,
   challenge |-> "", isProcessing |-> FALSE, vpJwt |-> "",
   verificationResult |-> None]

\* the Issue screen before it has loaded the wallet
IssueInitial ==
  [walletInfo |-> None, isIssuing |-> FALSE,
   credentialType |-> "", additionalClaims |-> <<>>]

InitWallet ==
  /\ store \in {[k \in StorageKeys |-> None]}
                \cup {[SavedWallet(generateKeyPair(k)) EXCEPT
                         ![STORAGE_KEYS.CREDENTIALS] =
                             IF n = 0 THEN None
                             ELSE JSONstringify(EarlierCredentials(generateKeyPair(k), n))]
                      : k \in 1..MaxKeys, n \in 0..MaxStored}
  /\ proc = [p \in Procs |-> Idle]
  /\ requests = {}
  /\ ledger = {}
  /\ clock = 0
  /\ calls = 0
  /\ faults = 0
  /\ removed = FALSE
  /\ presented = {}
  /\ home = HomeInitial
  /\ verify = VerifyInitial
  /\ walletScreen = [credentials |-> <<>>, isLoading |-> TRUE]
  /\ issueScreen = IssueInitial
  /\ alert = NoAlert

\* application start: storage as an earlier session left it, an empty log
Init == InitWallet /\ logs = <<>>

----------------------------------------------------------------------------
(* Calling a service *)

\* The caller slots are interchangeable: a call takes the second slot only
\* while the first one is busy.
Begin(p, call) ==
  /\ proc[p].op = "idle"
  /\ p = "p2" => proc["p1"].op # "idle"
  /\ calls < MaxCalls
  /\ calls' = calls + 1
  /\ proc' = [proc EXCEPT ![p] =
        [call EXCEPT !.step = 1, !.before = StoredCredentials(store)]]

\* a failure of the environment (storage, library, network), bounded
Fault(f) ==
  /\ f => faults < MaxFaults
  /\ faults' = IF f THEN faults + 1 ELSE faults

\* getSecure: the stored item, or null when the read throws
getSecure(key, f) == IF f THEN None ELSE store[key]

Thrown(pr, message) == [pr EXCEPT !.pc = "threw", !.error = message]

Tick ==
  /\ clock < MaxClock
  /\ clock' = clock + 1
  /\ UNCHANGED <<store, proc, requests, ledger, calls, faults, removed, presented, uiVars>>

----------------------------------------------------------------------------
(* didManager.createLocalDID *)

CallCreateLocalDID(p) ==
  /\ Begin(p, [Idle EXCEPT !.op = "createLocalDID", !.pc = "generateKeyPair"])
  /\ UNCHANGED <<store, requests, ledger, clock, faults, removed, presented, uiVars>>

\* crypto.generateKeyPair: 32 random bytes -> wallet; throws when the random
\* source or the wallet constructor fails
GenerateKeyPair(p) ==
  /\ proc[p].op = "createLocalDID" /\ proc[p].pc = "generateKeyPair"
  /\ \E f \in BOOLEAN :
       /\ Fault(f)
       /\ IF f
          THEN proc' = [proc EXCEPT ![p] = Thrown(@, "Error generating key pair")]
          ELSE \E k \in 1..MaxKeys :
                 proc' = [proc EXCEPT ![p] =
                    [@ EXCEPT !.kp = generateKeyPair(k),
                              !.pc = "saveWalletKeys", !.step = 1]]
  /\ UNCHANGED <<store, requests, ledger, clock, calls, removed, presented, uiVars>>

\* the five saveSecure calls of saveWalletKeys, in program order
WalletItems(kp) ==
  << <<STORAGE_KEYS.PRIVATE_KEY, kp.privateKey>>,
     <<STORAGE_KEYS.PUBLIC_KEY, kp.publicKey>>,
     <<STORAGE_KEYS.ADDRESS, kp.address>>,
     <<STORAGE_KEYS.DID, kp.did>>,
     <<STORAGE_KEYS.WALLET_INITIALIZED, Str("true")>> >>

\* one saveSecure of saveWalletKeys; a failed write throws and aborts the rest
SaveWalletKeys(p) ==
  /\ proc[p].op = "createLocalDID" /\ proc[p].pc = "saveWalletKeys"
  /\ LET items == WalletItems(proc[p].kp)
         item == items[proc[p].step]
     IN \E f \in BOOLEAN :
          /\ Fault(f)
          /\ IF f
             THEN /\ proc' = [proc EXCEPT ![p] = Thrown(@, "Failed to save wallet keys")]
                  /\ UNCHANGED store
             ELSE /\ store' = [store EXCEPT ![item[1]] = item[2]]
                  /\ proc' = [proc EXCEPT ![p] =
                        [@ EXCEPT !.wrote = @ \cup {item[1]},
                                  !.step = IF proc[p].step = Len(items) THEN 1 ELSE @ + 1,
                                  !.pc = IF proc[p].step = Len(items) THEN "signData" ELSE @]]
  /\ UNCHANGED <<requests, ledger, clock, calls, removed, presented, uiVars>>

OwnershipMessage(did) == [kind |-> "message", prefix |-> "Register DID: ", did |-> did]

\* a request body that carries the key itself next to the proof
RegisterBodyWithKey(did, publicKey, address, signature, message, privateKey) ==
  [did |-> did, publicKey |-> publicKey, address |-> address,
   signature |-> signature, message |-> message, privateKey |-> privateKey]

\* the body registerDIDOnBlockchain hands to apiClient.post
RegisterBody(did, publicKey, address, signature, message, privateKey) ==
  [did |-> did, publicKey |-> publicKey, address |-> address,
   signature |-> signature, message |-> message]

\* return { did, address, publicKey }
CreateLocalDIDReturn(pr) ==
  [pr EXCEPT !.pc = "done",
             !.result = [did |-> pr.kp.did, address |-> pr.kp.address,
                         publicKey |-> pr.kp.publicKey]]

\* a catch block that rethrows the registrar's error
RegistrationFailedRethrow(pr) ==
  Thrown([pr EXCEPT !.reg = "failed"], "Blockchain registration failed")

\* a catch block that registers once more
RegistrationFailedRetry(pr) == [pr EXCEPT !.reg = "failed", !.pc = "signData"]

\* the catch block around registerDIDOnBlockchain: warn and carry on
RegistrationFailed(pr) == CreateLocalDIDReturn([pr EXCEPT !.reg = "failed"])

\* registerDIDOnBlockchain, up to the request: sign the proof of ownership
RegisterSign(p) ==
  /\ proc[p].op = "createLocalDID" /\ proc[p].pc = "signData"
  /\ \E f \in BOOLEAN :
       /\ Fault(f)
       /\ proc' = [proc EXCEPT ![p] =
            IF f THEN RegistrationFailed(proc[p])
            ELSE [proc[p] EXCEPT
                    !.signature = signData(proc[p].kp.privateKey,
                                           OwnershipMessage(proc[p].kp.did)),
                    !.pc = "post"]]
  /\ UNCHANGED <<store, requests, ledger, clock, calls, removed, presented, uiVars>>

\* apiClient.post('/register-on-chain', ...) and its outcome
RegisterPost(p) ==
  /\ proc[p].op = "createLocalDID" /\ proc[p].pc = "post"
  /\ proc[p].posts < MaxRequests
  /\ LET pr == proc[p]
         body == RegisterBody(pr.kp.did, pr.kp.publicKey, pr.kp.address,
                              pr.signature, OwnershipMessage(pr.kp.did),
                              pr.kp.privateKey)
         sent == [pr EXCEPT !.posts = @ + 1]
     IN /\ requests' = requests \cup {[url |-> "/register-on-chain", body |-> body]}
        /\ \E f \in BOOLEAN :
             /\ Fault(f)
             /\ IF f
                THEN /\ proc' = [proc EXCEPT ![p] = RegistrationFailed(sent)]
                     /\ UNCHANGED ledger
                ELSE /\ proc' = [proc EXCEPT ![p] =
                           CreateLocalDIDReturn([sent EXCEPT !.reg = "ok"])]
                     /\ ledger' = ledger \cup {pr.kp.did}
  /\ UNCHANGED <<store, clock, calls, removed, presented, uiVars>>

----------------------------------------------------------------------------
(* secureStorage.clearWallet *)

ClearOrder ==
  <<STORAGE_KEYS.PRIVATE_KEY, STORAGE_KEYS.PUBLIC_KEY, STORAGE_KEYS.ADDRESS,
    STORAGE_KEYS.DID, STORAGE_KEYS.CREDENTIALS, STORAGE_KEYS.WALLET_INITIALIZED,
    STORAGE_KEYS.BIOMETRIC_ENABLED>>

CallClearWallet(p) ==
  /\ Begin(p, [Idle EXCEPT !.op = "clearWallet", !.pc = "deleteSecure"])
  /\ removed' = TRUE
  /\ UNCHANGED <<store, requests, ledger, clock, faults, presented, uiVars>>

\* one deleteSecure of clearWallet; a failed delete returns false and the
\* next delete is attempted all the same
ClearWallet(p) ==
  /\ proc[p].op = "clearWallet" /\ proc[p].pc = "deleteSecure"
  /\ LET key == ClearOrder[proc[p].step]
         last == proc[p].step = Len(ClearOrder)
     IN \E f \in BOOLEAN :
          /\ Fault(f)
          /\ store' = IF f THEN store ELSE [store EXCEPT ![key] = None]
          /\ proc' = [proc EXCEPT ![p] =
                [@ EXCEPT !.wrote = IF f THEN @ ELSE @ \cup {key},
                          !.step = IF last THEN 1 ELSE @ + 1,
                          !.pc = IF last THEN "done" ELSE @,
                          !.result = IF last THEN Str("true") ELSE @]]
  /\ UNCHANGED <<requests, ledger, clock, calls, removed, presented, uiVars>>

----------------------------------------------------------------------------
(* vcService.issueCredentialLocally and createPresentationLocally *)

\* the credentials a caller can hand to createPresentationLocally: any
\* selection, in any order, of the credentials it can read from the wallet
RECURSIVE Selections(_, _)
Selections(list, n) ==
  IF n = 0 THEN {<<>>}
  ELSE LET shorter == Selections(list, n - 1)
       IN shorter \cup
          {Append(sel, list[i]) : sel \in {t \in shorter : Len(t) = n - 1},
                                  i \in 1..Len(list)}

NoRepeat(sel) == \A i, j \in 1..Len(sel) : i # j => sel[i] # sel[j]

CredentialInputs ==
  LET list == StoredCredentials(store)
  IN {sel \in Selections(list, Len(list)) : NoRepeat(sel)}

CallIssueCredentialLocally(p) ==
  /\ \E credentialData \in ClaimsInputs :
       Begin(p, [Idle EXCEPT !.op = "issueCredentialLocally", !.pc = "getDID",
                             !.claims = credentialData])
  /\ UNCHANGED <<store, requests, ledger, clock, faults, removed, presented, uiVars>>

CallCreatePresentationLocally(p) ==
  /\ \E credentials \in CredentialInputs, challenge \in ChallengeInputs :
       Begin(p, [Idle EXCEPT !.op = "createPresentationLocally", !.pc = "getDID",
                             !.credentials = credentials,
                             !.challenge = challenge])
  /\ UNCHANGED <<store, requests, ledger, clock, faults, removed, presented, uiVars>>

\* a wallet check that fires only when both items are missing
NoWalletBoth(did, privateKey) == Falsy(did) /\ Falsy(privateKey)

\* if (!did || !privateKey) throw new Error('No wallet found')
NoWallet(did, privateKey) == Falsy(did) \/ Falsy(privateKey)

\* await secureStorage.getDID()
GetDID(p) ==
  /\ proc[p].pc = "getDID"
  /\ \E f \in BOOLEAN :
       /\ Fault(f)
       /\ proc' = [proc EXCEPT ![p] =
            [@ EXCEPT !.did = getSecure(STORAGE_KEYS.DID, f),
                      !.pc = IF proc[p].op = "getWalletInfo"
                             THEN "getAddress" ELSE "getPrivateKey"]]
  /\ UNCHANGED <<store, requests, ledger, clock, calls, removed, presented, uiVars>>

\* await secureStorage.getPrivateKey(), the wallet check and the payload
\* that is built before the signing call
GetPrivateKey(p) ==
  /\ proc[p].op \in {"issueCredentialLocally", "createPresentationLocally"}
  /\ proc[p].pc = "getPrivateKey"
  /\ \E f \in BOOLEAN :
       /\ Fault(f)
       /\ LET pr == proc[p]
              privateKey == getSecure(STORAGE_KEYS.PRIVATE_KEY, f)
          IN proc' = [proc EXCEPT ![p] =
               IF NoWallet(pr.did, privateKey)
               THEN Thrown(pr, "No wallet found")
               ELSE [pr EXCEPT
                       !.privateKey = privateKey,
                       !.payload =
                          IF pr.op = "issueCredentialLocally"
                          THEN VcPayload(pr.did, pr.claims, clock)
                          ELSE VpPayload(pr.credentials, pr.challenge),
                       !.pc = "sign"]]
  /\ UNCHANGED <<store, requests, ledger, clock, calls, removed, presented, uiVars>>

\* await createVerifiableCredentialJwt(vcPayload, issuer)
CreateVerifiableCredentialJwt(p) ==
  /\ proc[p].op = "issueCredentialLocally" /\ proc[p].pc = "sign"
  /\ \E f \in BOOLEAN :
       /\ Fault(f)
       /\ LET pr == proc[p]
              jwt == SignJwt(pr.payload, Issuer(pr.did, pr.privateKey))
          IN proc' = [proc EXCEPT ![p] =
               IF f THEN Thrown(pr, "signing failed")
               ELSE [pr EXCEPT
                       !.jwt = jwt,
                       !.credential = Credential(pr.did, pr.claims, jwt, clock),
                       !.pc = "getCredentials"]]
  /\ UNCHANGED <<store, requests, ledger, clock, calls, removed, presented, uiVars>>

\* a signing step that also keeps the presentation token in the wallet
CreateVerifiablePresentationJwtKept(p) ==
  /\ proc[p].op = "createPresentationLocally" /\ proc[p].pc = "sign"
  /\ LET pr == proc[p]
         jwt == SignJwt(pr.payload, Issuer(pr.did, pr.privateKey))
     IN /\ proc' = [proc EXCEPT ![p] =
              [pr EXCEPT !.jwt = jwt, !.result = [vpJwt |-> jwt], !.pc = "done"]]
        /\ presented' = presented \cup {jwt}
        /\ store' = [store EXCEPT ![STORAGE_KEYS.CREDENTIALS] =
              JSONstringify(Append(StoredCredentials(store),
                                   Credential(pr.did, {}, jwt, clock)))]
  /\ UNCHANGED <<requests, ledger, clock, calls, faults, removed, uiVars>>

\* await createVerifiablePresentationJwt(vpPayload, holder); return { vpJwt }
CreateVerifiablePresentationJwt(p) ==
  /\ proc[p].op = "createPresentationLocally" /\ proc[p].pc = "sign"
  /\ \E f \in BOOLEAN :
       /\ Fault(f)
       /\ LET pr == proc[p]
              jwt == SignJwt(pr.payload, Issuer(pr.did, pr.privateKey))
          IN /\ proc' = [proc EXCEPT ![p] =
                  IF f THEN Thrown(pr, "signing failed")
                  ELSE [pr EXCEPT !.jwt = jwt, !.result = [vpJwt |-> jwt],
                                  !.pc = "done"]]
             /\ presented' = IF f THEN presented ELSE presented \cup {jwt}
  /\ UNCHANGED <<store, requests, ledger, clock, calls, removed, uiVars>>

----------------------------------------------------------------------------
(* secureStorage: the credential list *)

\* getCredentials: the parsed list, or [] when nothing is stored or the
\* read fails
getCredentials(f) ==
  LET credentialsJson == getSecure(STORAGE_KEYS.CREDENTIALS, f)
  IN IF ~Falsy(credentialsJson) THEN JSONparse(credentialsJson) ELSE <<>>

CallDeleteCredential(p) ==
  /\ \E c \in {StoredCredentials(store)[i] : i \in 1..Len(StoredCredentials(store))} :
       Begin(p, [Idle EXCEPT !.op = "deleteCredential", !.pc = "getCredentials",
                             !.credentialId = c.id])
  /\ removed' = TRUE
  /\ UNCHANGED <<store, requests, ledger, clock, faults, presented, uiVars>>

\* const existingCredentials = await getCredentials(), then the push of
\* addCredential or the filter of deleteCredential
GetCredentials(p) ==
  /\ proc[p].op \in {"issueCredentialLocally", "deleteCredential"}
  /\ proc[p].pc = "getCredentials"
  /\ \E f \in BOOLEAN :
       /\ Fault(f)
       /\ LET pr == proc[p]
              existingCredentials == getCredentials(f)
          IN proc' = [proc EXCEPT ![p] =
               [pr EXCEPT
                  !.existing =
                     IF pr.op = "issueCredentialLocally"
                     THEN Push(existingCredentials, pr.credential, clock)
                     ELSE Filter(existingCredentials, pr.credentialId),
                  !.pc = "saveCredentials"]]
  /\ UNCHANGED <<store, requests, ledger, clock, calls, removed, presented, uiVars>>

\* an addCredential that logs the storage error and returns normally
AddCredentialFailedSwallowed(pr) ==
  [pr EXCEPT !.result = pr.credential, !.pc = "done"]

\* what addCredential does when saveCredentials throws: log and rethrow
AddCredentialFailed(pr) == Thrown(pr, "Failed to save credentials")

\* await saveCredentials(list), then the return of the calling service
SaveCredentials(p) ==
  /\ proc[p].op \in {"issueCredentialLocally", "deleteCredential"}
  /\ proc[p].pc = "saveCredentials"
  /\ \E f \in BOOLEAN :
       /\ Fault(f)
       /\ LET pr == proc[p]
              returned == [pr EXCEPT
                             !.wrote = @ \cup {STORAGE_KEYS.CREDENTIALS},
                             !.result = IF pr.op = "issueCredentialLocally"
                                        THEN pr.credential ELSE Str("true"),
                             !.pc = "done"]
          IN IF f
             THEN /\ proc' = [proc EXCEPT ![p] =
                        IF pr.op = "issueCredentialLocally"
                        THEN AddCredentialFailed(pr)
                        ELSE Thrown(pr, "Failed to save credentials")]
                  /\ UNCHANGED store
             ELSE /\ proc' = [proc EXCEPT ![p] = returned]
                  /\ store' = [store EXCEPT ![STORAGE_KEYS.CREDENTIALS] =
                                  JSONstringify(pr.existing)]
  /\ UNCHANGED <<requests, ledger, clock, calls, removed, presented, uiVars>>

----------------------------------------------------------------------------
(* didManager.getWalletInfo and didManager.signLocally *)

CallGetWalletInfo(p) ==
  /\ Begin(p, [Idle EXCEPT !.op = "getWalletInfo", !.pc = "getDID"])
  /\ UNCHANGED <<store, requests, ledger, clock, faults, removed, presented, uiVars>>

\* await secureStorage.getAddress()
GetAddress(p) ==
  /\ proc[p].op = "getWalletInfo" /\ proc[p].pc = "getAddress"
  /\ \E f \in BOOLEAN :
       /\ Fault(f)
       /\ proc' = [proc EXCEPT ![p] =
            [@ EXCEPT !.address = getSecure(STORAGE_KEYS.ADDRESS, f),
                      !.pc = "getPublicKey"]]
  /\ UNCHANGED <<store, requests, ledger, clock, calls, removed, presented, uiVars>>

\* await secureStorage.getPublicKey(); return { did, address, publicKey }
GetPublicKey(p) ==
  /\ proc[p].op = "getWalletInfo" /\ proc[p].pc = "getPublicKey"
  /\ \E f \in BOOLEAN :
       /\ Fault(f)
       /\ LET pr == proc[p]
          IN proc' = [proc EXCEPT ![p] =
               [pr EXCEPT !.result =
                             [did |-> pr.did, address |-> pr.address,
                              publicKey |-> getSecure(STORAGE_KEYS.PUBLIC_KEY, f)],
                          !.pc = "done"]]
  /\ UNCHANGED <<store, requests, ledger, clock, calls, removed, presented, uiVars>>

DataInputs == {"data"}

CallSignLocally(p) ==
  /\ \E data \in DataInputs :
       Begin(p, [Idle EXCEPT !.op = "signLocally", !.pc = "getPrivateKey",
                             !.data = data])
  /\ UNCHANGED <<store, requests, ledger, clock, faults, removed, presented, uiVars>>

\* const privateKey = await secureStorage.getPrivateKey(), and the check
SignLocallyGetKey(p) ==
  /\ proc[p].op = "signLocally" /\ proc[p].pc = "getPrivateKey"
  /\ \E f \in BOOLEAN :
       /\ Fault(f)
       /\ LET pr == proc[p]
              privateKey == getSecure(STORAGE_KEYS.PRIVATE_KEY, f)
          IN proc' = [proc EXCEPT ![p] =
               IF Falsy(privateKey)
               THEN Thrown(pr, "No private key found")
               ELSE [pr EXCEPT !.privateKey = privateKey, !.pc = "signData"]]
  /\ UNCHANGED <<store, requests, ledger, clock, calls, removed, presented, uiVars>>

\* const signature = await signData(privateKey, data); return signature
SignLocallySign(p) ==
  /\ proc[p].op = "signLocally" /\ proc[p].pc = "signData"
  /\ \E f \in BOOLEAN :
       /\ Fault(f)
       /\ LET pr == proc[p]
          IN proc' = [proc EXCEPT ![p] =
               IF f THEN Thrown(pr, "Failed to sign data")
               ELSE [pr EXCEPT !.signature = signData(pr.privateKey, pr.data),
                               !.result = signData(pr.privateKey, pr.data),
                               !.pc = "done"]]
  /\ UNCHANGED <<store, requests, ledger, clock, calls, removed, presented, uiVars>>

----------------------------------------------------------------------------
(* api.js: vpAPI.verify and vpAPI.create *)

CallVpVerify(p) ==
  /\ \E vpJwt \in presented, challenge \in ChallengeInputs :
       Begin(p, [Idle EXCEPT !.op = "vpAPI.verify", !.pc = "post",
                             !.jwt = vpJwt, !.challenge = challenge])
  /\ UNCHANGED <<store, requests, ledger, clock, faults, removed, presented, uiVars>>

\* apiClient.post('/verify-vp', { vpJwt, challenge }); the verdict is the
\* back end's
VpVerifyPost(p) ==
  /\ proc[p].op = "vpAPI.verify" /\ proc[p].pc = "post"
  /\ LET pr == proc[p]
         body == [vpJwt |-> pr.jwt, challenge |-> pr.challenge]
     IN /\ requests' = requests \cup {[url |-> "/verify-vp", body |-> body]}
        /\ \E f \in BOOLEAN :
             /\ Fault(f)
             /\ IF f
                THEN proc' = [proc EXCEPT ![p] =
                                 Thrown(pr, "Failed to verify presentation")]
                ELSE \E verified \in BOOLEAN :
                       proc' = [proc EXCEPT ![p] =
                          [pr EXCEPT !.result = [verified |-> verified],
                                     !.pc = "done"]]
  /\ UNCHANGED <<store, ledger, clock, calls, removed, presented, uiVars>>

CallVpCreate(p) ==
  /\ ~Falsy(store[STORAGE_KEYS.DID])
  /\ \E credentials \in CredentialInputs, challenge \in ChallengeInputs :
       Begin(p, [Idle EXCEPT !.op = "vpAPI.create", !.pc = "post",
                             !.did = store[STORAGE_KEYS.DID],
                             !.credentials = credentials,
                             !.challenge = challenge])
  /\ UNCHANGED <<store, requests, ledger, clock, faults, removed, presented, uiVars>>

\* apiClient.post('/create-vp', { holderDID, credentials, challenge })
VpCreatePost(p) ==
  /\ proc[p].op = "vpAPI.create" /\ proc[p].pc = "post"
  /\ LET pr == proc[p]
         body == [holderDID |-> pr.did, credentials |-> pr.credentials,
                  challenge |-> pr.challenge]
     IN /\ requests' = requests \cup {[url |-> "/create-vp", body |-> body]}
        /\ \E f \in BOOLEAN :
             /\ Fault(f)
             /\ proc' = [proc EXCEPT ![p] =
                  IF f THEN Thrown(pr, "Failed to create presentation")
                  ELSE [pr EXCEPT !.result = [vpJwt |-> Str("response")],
                                  !.pc = "done"]]
  /\ UNCHANGED <<store, ledger, clock, calls, removed, presented, uiVars>>

----------------------------------------------------------------------------
(* The caller takes the outcome of a finished call *)

Finish(p) ==
  /\ proc[p].handler = ""
  /\ proc[p].pc \in {"done", "threw"}
  /\ proc' = [proc EXCEPT ![p] = Idle]
  /\ UNCHANGED <<store, requests, ledger, clock, calls, faults, removed, presented, uiVars>>

----------------------------------------------------------------------------
(* Services the screens call besides the ones above *)

\* a screen handler starts a service call
Invoke(p, handler, call) ==
  /\ proc[p].op = "idle"
  /\ proc' = [proc EXCEPT ![p] =
        [call EXCEPT !.handler = handler, !.step = 1,
                     !.before = StoredCredentials(store)]]

\* a screen handler goes on to its next service call
Continue(pr, call) ==
  [call EXCEPT !.handler = pr.handler, !.step = 1,
               !.before = StoredCredentials(store)]

HasWalletCall == [Idle EXCEPT !.op = "hasWallet", !.pc = "isWalletInitialized"]
GetCredentialsCall == [Idle EXCEPT !.op = "getCredentials", !.pc = "getCredentials"]
GetWalletInfoCall == [Idle EXCEPT !.op = "getWalletInfo", !.pc = "getDID"]

\* didManager.hasWallet -> secureStorage.isWalletInitialized
IsWalletInitialized(p) ==
  /\ proc[p].op = "hasWallet" /\ proc[p].pc = "isWalletInitialized"
  /\ \E f \in BOOLEAN :
       /\ Fault(f)
       /\ LET initialized == getSecure(STORAGE_KEYS.WALLET_INITIALIZED, f)
          IN proc' = [proc EXCEPT ![p] =
               [@ EXCEPT !.result = [value |-> initialized = Str("true")],
                         !.pc = "done"]]
  /\ UNCHANGED <<store, requests, ledger, clock, calls, removed, presented, uiVars>>

\* secureStorage.getCredentials called by a screen
ReadCredentials(p) ==
  /\ proc[p].op = "getCredentials" /\ proc[p].pc = "getCredentials"
  /\ \E f \in BOOLEAN :
       /\ Fault(f)
       /\ proc' = [proc EXCEPT ![p] =
            [@ EXCEPT !.result = [list |-> getCredentials(f)], !.pc = "done"]]
  /\ UNCHANGED <<store, requests, ledger, clock, calls, removed, presented, uiVars>>

----------------------------------------------------------------------------
(* Verify screen *)

Includes(list, x) == \E i \in 1..Len(list) : list[i] = x

\* the state loadData resets the screen to when there is no wallet
VerifyCleared ==
  [verify EXCEPT !.credentials = <<>>, !.selectedCredentials = <<>>,
                 !.walletInfo = None, !.vpJwt = "", !.challenge = "",
                 !.verificationResult = None]

\* useFocusEffect: the tab gains focus and loadData starts
FocusVerify(p) ==
  /\ Invoke(p, "loadData", HasWalletCall)
  /\ UNCHANGED <<store, requests, ledger, clock, calls, faults, removed,
                 presented, uiVars>>

\* loadData after each of its awaits
LoadData(p) ==
  /\ proc[p].handler = "loadData" /\ proc[p].pc = "done"
  /\ LET pr == proc[p]
     IN CASE pr.op = "hasWallet" ->
               IF ~pr.result.value
               THEN /\ verify' = VerifyCleared
                    /\ proc' = [proc EXCEPT ![p] = Idle]
               ELSE /\ proc' = [proc EXCEPT ![p] = Continue(pr, GetCredentialsCall)]
                    /\ UNCHANGED verify
          [] pr.op = "getCredentials" ->
               /\ verify' = [verify EXCEPT !.credentials = pr.result.list]
               /\ proc' = [proc EXCEPT ![p] = Continue(pr, GetWalletInfoCall)]
          [] pr.op = "getWalletInfo" ->
               /\ verify' = [verify EXCEPT !.walletInfo = pr.result]
               /\ proc' = [proc EXCEPT ![p] = Idle]
  /\ UNCHANGED <<store, requests, ledger, clock, calls, faults, removed,
                 presented, home, walletScreen, alert,
                 issueScreen, logs>>

\* a tap on one of the credentials the screen lists
ToggleCredentialSelection ==
  /\ verify.walletInfo # None
  /\ \E i \in 1..Len(verify.credentials) :
       LET credentialId == verify.credentials[i].id
           selectedCredentials == verify.selectedCredentials
       IN verify' = [verify EXCEPT !.selectedCredentials =
            IF Includes(selectedCredentials, credentialId)
            THEN SelectSeq(selectedCredentials, LAMBDA id : id # credentialId)
            ELSE Append(selectedCredentials, credentialId)]
  /\ UNCHANGED <<store, proc, requests, ledger, clock, calls, faults, removed,
                 presented, home, walletScreen, alert,
                 issueScreen, logs>>

ChallengeTexts == {"", " ", "c1"}

\* challenge.trim()
Trim(text) == IF text = " " THEN "" ELSE text

\* challenge.trim() || undefined
ChallengeToUse(text) == IF Trim(text) = "" THEN Undefined ELSE Str(Trim(text))

\* the challenge text input
SetChallenge ==
  /\ \E text \in ChallengeTexts :
       /\ text # verify.challenge
       /\ verify' = [verify EXCEPT !.challenge = text]
  /\ UNCHANGED <<store, proc, requests, ledger, clock, calls, faults, removed,
                 presented, home, walletScreen, alert,
                 issueScreen, logs>>

\* credentials.filter(c => selectedCredentials.includes(c.id))
SelectedCreds(credentials, selectedCredentials) ==
  SelectSeq(credentials, LAMBDA c : Includes(selectedCredentials, c.id))

\* createPresentation up to its await
PressCreatePresentation(p) ==
  /\ proc[p].op = "idle"
  /\ verify.mode = "create"
  /\ verify.walletInfo # None
  /\ ~verify.isProcessing
  /\ IF Len(verify.selectedCredentials) = 0
     THEN /\ alert' = [NoAlert EXCEPT !.title = "Error",
                                      !.message = "Select at least one credential"]
          /\ UNCHANGED <<proc, verify,
                 issueScreen, logs>>
     ELSE IF Falsy(verify.walletInfo.did)
     THEN /\ alert' = [NoAlert EXCEPT !.title = "Error",
                                      !.message = "No DID found"]
          /\ UNCHANGED <<proc, verify,
                 issueScreen, logs>>
     ELSE /\ verify' = [verify EXCEPT !.isProcessing = TRUE]
          /\ Invoke(p, "createPresentation",
                [Idle EXCEPT !.op = "createPresentationLocally", !.pc = "getDID",
                             !.credentials = SelectedCreds(verify.credentials,
                                                verify.selectedCredentials),
                             !.challenge = ChallengeToUse(verify.challenge)])
          /\ UNCHANGED alert
  /\ UNCHANGED <<store, requests, ledger, clock, calls, faults, removed,
                 presented, home, walletScreen,
                 issueScreen, logs>>

\* createPresentation after createPresentationLocally has settled: copy the
\* token, report, reset the selection; the finally block clears the flag
CreatePresentation(p) ==
  /\ proc[p].handler = "createPresentation"
  /\ proc[p].pc \in {"done", "threw"}
  /\ \E f \in BOOLEAN :
       /\ Fault(f)
       /\ f => proc[p].pc = "done"
       /\ IF proc[p].pc = "done" /\ ~f
          THEN /\ alert' = [NoAlert EXCEPT !.title = "Presentation Created",
                               !.message = "VP JWT created and copied to clipboard!"]
               /\ verify' = [verify EXCEPT !.selectedCredentials = <<>>,
                                           !.challenge = "",
                                           !.isProcessing = FALSE]
          ELSE /\ alert' = [NoAlert EXCEPT !.title = "Error",
                                           !.message = "Failed"]
               /\ verify' = [verify EXCEPT !.isProcessing = FALSE]
  /\ proc' = [proc EXCEPT ![p] = Idle]
  /\ UNCHANGED <<store, requests, ledger, clock, calls, removed, presented,
                 home, walletScreen,
                 issueScreen, logs>>

----------------------------------------------------------------------------
(* Verify screen: the verify form *)

\* the Create / Verify buttons of the mode switcher
SetMode ==
  /\ \E mode \in {"create", "verify"} :
       /\ mode # verify.mode
       /\ verify' = [verify EXCEPT !.mode = mode]
  /\ UNCHANGED <<store, proc, requests, ledger, clock, calls, faults, removed,
                 presented, home, walletScreen, alert,
                 issueScreen, logs>>

VpJwtTexts == {"", " ", "vp"}

\* the VP JWT text input
SetVpJwt ==
  /\ verify.mode = "verify"
  /\ \E text \in VpJwtTexts :
       /\ text # verify.vpJwt
       /\ verify' = [verify EXCEPT !.vpJwt = text]
  /\ UNCHANGED <<store, proc, requests, ledger, clock, calls, faults, removed,
                 presented, home, walletScreen, alert,
                 issueScreen, logs>>

\* verifyPresentation up to its await
PressVerifyPresentation(p) ==
  /\ proc[p].op = "idle"
  /\ verify.mode = "verify"
  /\ ~verify.isProcessing
  /\ IF Trim(verify.vpJwt) = ""
     THEN /\ alert' = [NoAlert EXCEPT !.title = "Error",
                                      !.message = "Enter a VP JWT to verify"]
          /\ UNCHANGED <<proc, verify>>
     ELSE /\ verify' = [verify EXCEPT !.isProcessing = TRUE,
                                      !.verificationResult = None]
          /\ Invoke(p, "verifyPresentation",
                [Idle EXCEPT !.op = "vpAPI.verify", !.pc = "post",
                             !.jwt = Str(verify.vpJwt),
                             !.challenge = ChallengeToUse(verify.challenge)])
          /\ UNCHANGED alert
  /\ UNCHANGED <<store, requests, ledger, clock, calls, faults, removed,
                 presented, home, walletScreen,
                 issueScreen, logs>>

\* a catch block that reports the error and leaves the result unset
VerificationFailedUnset(pr) == None

\* setVerificationResult({ verified: false, error: error.message })
VerificationFailed(pr) == [verified |-> FALSE, error |-> pr.error]

\* verifyPresentation after vpAPI.verify has settled: the result or the
\* catch block, then the finally block
VerifyPresentation(p) ==
  /\ proc[p].handler = "verifyPresentation"
  /\ proc[p].pc \in {"done", "threw"}
  /\ LET pr == proc[p]
     IN IF pr.pc = "done"
        THEN /\ alert' = IF pr.result.verified
                         THEN [NoAlert EXCEPT !.title = "Verified",
                                 !.message = "Presentation is valid and verified!"]
                         ELSE [NoAlert EXCEPT !.title = "Invalid",
                                 !.message = "Presentation verification failed"]
             /\ verify' = [verify EXCEPT !.verificationResult = pr.result,
                                         !.isProcessing = FALSE]
        ELSE /\ alert' = [NoAlert EXCEPT !.title = "Error",
                                         !.message = "Verification failed"]
             /\ verify' = [verify EXCEPT
                             !.verificationResult = VerificationFailed(pr),
                             !.isProcessing = FALSE]
  /\ proc' = [proc EXCEPT ![p] = Idle]
  /\ UNCHANGED <<store, requests, ledger, clock, calls, faults, removed,
                 presented, home, walletScreen,
                 issueScreen, logs>>

\* the Clear button of the verify form
ClearVerifyForm ==
  /\ verify.mode = "verify"
  /\ verify' = [verify EXCEPT !.vpJwt = "", !.challenge = "",
                              !.verificationResult = None]
  /\ UNCHANGED <<store, proc, requests, ledger, clock, calls, faults, removed,
                 presented, home, walletScreen, alert,
                 issueScreen, logs>>

----------------------------------------------------------------------------
(* Wallet screen (app/credentials.js) *)

\* useFocusEffect / the reload button: loadCredentials up to its await
FocusWallet(p) ==
  /\ Invoke(p, "loadCredentials", GetCredentialsCall)
  /\ walletScreen' = [walletScreen EXCEPT !.isLoading = TRUE]
  /\ UNCHANGED <<store, requests, ledger, clock, calls, faults, removed,
                 presented, home, verify, alert,
                 issueScreen, logs>>

\* loadCredentials after getCredentials
LoadCredentials(p) ==
  /\ proc[p].handler = "loadCredentials" /\ proc[p].pc = "done"
  /\ walletScreen' = [walletScreen EXCEPT !.credentials = proc[p].result.list,
                                          !.isLoading = FALSE]
  /\ proc' = [proc EXCEPT ![p] = Idle]
  /\ UNCHANGED <<store, requests, ledger, clock, calls, faults, removed,
                 presented, home, verify, alert,
                 issueScreen, logs>>

\* the Remove button of the confirmation that handleDelete shows for a card
PressRemove(p) ==
  /\ \E i \in 1..Len(walletScreen.credentials) :
       Invoke(p, "handleDelete",
              [Idle EXCEPT !.op = "deleteCredential", !.pc = "getCredentials",
                           !.credentialId = walletScreen.credentials[i].id])
  /\ removed' = TRUE
  /\ UNCHANGED <<store, requests, ledger, clock, calls, faults, presented,
                 uiVars>>

\* the Remove handler after deleteCredential, and after the loadCredentials
\* that follows it; a rejected deleteCredential ends the handler
HandleDelete(p) ==
  /\ proc[p].handler = "handleDelete"
  /\ proc[p].pc \in {"done", "threw"}
  /\ LET pr == proc[p]
     IN CASE pr.pc = "threw" ->
               /\ proc' = [proc EXCEPT ![p] = Idle]
               /\ UNCHANGED walletScreen
          [] pr.pc = "done" /\ pr.op = "deleteCredential" ->
               /\ proc' = [proc EXCEPT ![p] = Continue(pr, GetCredentialsCall)]
               /\ walletScreen' = [walletScreen EXCEPT !.isLoading = TRUE]
          [] pr.pc = "done" /\ pr.op = "getCredentials" ->
               /\ proc' = [proc EXCEPT ![p] = Idle]
               /\ walletScreen' = [walletScreen EXCEPT
                                     !.credentials = pr.result.list,
                                     !.isLoading = FALSE]
  /\ UNCHANGED <<store, requests, ledger, clock, calls, faults, removed,
                 presented, home, verify, alert,
                 issueScreen, logs>>

----------------------------------------------------------------------------
(* Home screen (app/index.js) *)

\* the screen mounts: fresh component state, and useEffect starts checkWallet
MountHome(p) ==
  /\ Invoke(p, "checkWallet", HasWalletCall)
  /\ home' = [hasWallet |-> FALSE, walletInfo |-> None, isCreatingDID |-> FALSE]
  /\ UNCHANGED <<store, requests, ledger, clock, calls, faults, removed,
                 presented, verify, walletScreen, alert,
                 issueScreen, logs>>

\* checkWallet after each of its awaits
CheckWallet(p) ==
  /\ proc[p].handler = "checkWallet" /\ proc[p].pc = "done"
  /\ LET pr == proc[p]
     IN CASE pr.op = "hasWallet" ->
               /\ home' = [home EXCEPT !.hasWallet = pr.result.value]
               /\ proc' = [proc EXCEPT ![p] =
                     IF pr.result.value THEN Continue(pr, GetWalletInfoCall)
                     ELSE Idle]
          [] pr.op = "getWalletInfo" ->
               /\ home' = [home EXCEPT !.walletInfo = pr.result]
               /\ proc' = [proc EXCEPT ![p] = Idle]
  /\ UNCHANGED <<store, requests, ledger, clock, calls, faults, removed,
                 presented, verify, walletScreen, alert,
                 issueScreen, logs>>

\* the Create button of the confirmation: createDID up to its await
PressCreateDID(p) ==
  /\ ~home.hasWallet
  /\ ~home.isCreatingDID
  /\ Invoke(p, "createDID",
            [Idle EXCEPT !.op = "createLocalDID", !.pc = "generateKeyPair"])
  /\ home' = [home EXCEPT !.isCreatingDID = TRUE]
  /\ UNCHANGED <<store, requests, ledger, clock, calls, faults, removed,
                 presented, verify, walletScreen, alert,
                 issueScreen, logs>>

\* createDID after createLocalDID has settled
CreateDID(p) ==
  /\ proc[p].handler = "createDID"
  /\ proc[p].pc \in {"done", "threw"}
  /\ LET pr == proc[p]
     IN IF pr.pc = "done"
        THEN /\ home' = [hasWallet |-> TRUE, walletInfo |-> pr.result,
                         isCreatingDID |-> FALSE]
             /\ alert' = [title |-> "Identity Created",
                          message |-> "Registered on blockchain!",
                          did |-> pr.result.did]
        ELSE /\ home' = [home EXCEPT !.isCreatingDID = FALSE]
             /\ alert' = [NoAlert EXCEPT !.title = "Error",
                             !.message = "Failed to create DID. Please try again."]
  /\ proc' = [proc EXCEPT ![p] = Idle]
  /\ UNCHANGED <<store, requests, ledger, clock, calls, faults, removed,
                 presented, verify, walletScreen,
                 issueScreen, logs>>

\* the Clear button of the reset confirmation, up to its await
PressClear(p) ==
  /\ home.hasWallet
  /\ Invoke(p, "handleClearWallet",
            [Idle EXCEPT !.op = "clearWallet", !.pc = "deleteSecure"])
  /\ removed' = TRUE
  /\ UNCHANGED <<store, requests, ledger, clock, calls, faults, presented,
                 uiVars>>

\* the Clear handler after clearWallet
HandleClearWallet(p) ==
  /\ proc[p].handler = "handleClearWallet" /\ proc[p].pc = "done"
  /\ home' = [home EXCEPT !.hasWallet = FALSE, !.walletInfo = None]
  /\ proc' = [proc EXCEPT ![p] = Idle]
  /\ UNCHANGED <<store, requests, ledger, clock, calls, faults, removed,
                 presented, verify, walletScreen, alert,
                 issueScreen, logs>>

----------------------------------------------------------------------------
(* Issue screen *)

ClaimKeys == {"role"}
ClaimValues == {"admin"}
CredentialTypes == {"", "Employee"}

\* the screen mounts: fresh component state, and useEffect starts loadWallet
MountIssue(p) ==
  /\ Invoke(p, "loadWallet", GetWalletInfoCall)
  /\ issueScreen' = IssueInitial
  /\ UNCHANGED <<store, requests, ledger, clock, calls, faults, removed,
                 presented, home, verify, walletScreen, alert, logs>>

\* loadWallet after getWalletInfo
LoadWallet(p) ==
  /\ proc[p].handler = "loadWallet" /\ proc[p].pc = "done"
  /\ issueScreen' = [issueScreen EXCEPT !.walletInfo = proc[p].result]
  /\ proc' = [proc EXCEPT ![p] = Idle]
  /\ UNCHANGED <<store, requests, ledger, clock, calls, faults, removed,
                 presented, home, verify, walletScreen, alert, logs>>

\* the credential type text input
SetCredentialType ==
  /\ \E text \in CredentialTypes :
       /\ text # issueScreen.credentialType
       /\ issueScreen' = [issueScreen EXCEPT !.credentialType = text]
  /\ UNCHANGED <<store, proc, requests, ledger, clock, calls, faults, removed,
                 presented, home, verify, walletScreen, alert, logs>>

\* addClaim with both the key and the value input filled in
AddClaim ==
  /\ Len(issueScreen.additionalClaims) < MaxClaims
  /\ \E claimKey \in ClaimKeys, claimValue \in ClaimValues :
       issueScreen' = [issueScreen EXCEPT !.additionalClaims =
          Append(@, [key |-> claimKey, value |-> claimValue])]
  /\ UNCHANGED <<store, proc, requests, ledger, clock, calls, faults, removed,
                 presented, home, verify, walletScreen, alert, logs>>

\* additionalClaims.filter((_, i) => i !== index)
RemoveClaim ==
  /\ \E index \in 1..Len(issueScreen.additionalClaims) :
       issueScreen' = [issueScreen EXCEPT !.additionalClaims =
          SubSeq(@, 1, index - 1) \o SubSeq(@, index + 1, Len(@))]
  /\ UNCHANGED <<store, proc, requests, ledger, clock, calls, faults, removed,
                 presented, home, verify, walletScreen, alert, logs>>

\* the claims object issueCredential builds: one entry per key, the last
\* claim with a key giving its value, then credentialType if it is filled in
IssueClaims(additionalClaims, credentialType) ==
  LET n == Len(additionalClaims)
      last(i) == \A j \in (i + 1)..n : additionalClaims[j].key # additionalClaims[i].key
      claims == {<<additionalClaims[i].key, additionalClaims[i].value>> :
                   i \in {k \in 1..n : last(k)}}
  IN IF credentialType # ""
     THEN {c \in claims : c[1] # "credentialType"}
            \cup {<<"credentialType", credentialType>>}
     ELSE claims

\* issueCredential up to its await; the session issues up to MaxCalls times
PressIssueCredential(p) ==
  /\ proc[p].op = "idle"
  /\ ~issueScreen.isIssuing
  /\ IF issueScreen.walletInfo = None \/ Falsy(issueScreen.walletInfo.did)
     THEN /\ alert' = [NoAlert EXCEPT !.title = "Error",
                 !.message = "No DID found. Create your identity first."]
          /\ UNCHANGED <<proc, issueScreen, calls>>
     ELSE IF Len(issueScreen.additionalClaims) = 0
     THEN /\ alert' = [NoAlert EXCEPT !.title = "Error",
                 !.message = "Add at least one claim to the credential."]
          /\ UNCHANGED <<proc, issueScreen, calls>>
     ELSE /\ calls < MaxCalls
          /\ calls' = calls + 1
          /\ issueScreen' = [issueScreen EXCEPT !.isIssuing = TRUE]
          /\ Invoke(p, "issueCredential",
                [Idle EXCEPT !.op = "issueCredentialLocally", !.pc = "getDID",
                             !.claims = IssueClaims(issueScreen.additionalClaims,
                                                    issueScreen.credentialType)])
          /\ UNCHANGED alert
  /\ UNCHANGED <<store, requests, ledger, clock, faults, removed,
                 presented, home, verify, walletScreen, logs>>

\* a handler whose flag is cleared on the success path only
IsIssuingAfterTry(pr) == pr.pc = "threw"

\* finally { setIsIssuing(false) }
IsIssuingAfter(pr) == FALSE

\* issueCredential after issueCredentialLocally has settled: the alert of
\* the try or of the catch block, then the finally block
IssueCredential(p) ==
  /\ proc[p].handler = "issueCredential"
  /\ proc[p].pc \in {"done", "threw"}
  /\ LET pr == proc[p]
     IN /\ alert' = IF pr.pc = "done"
                    THEN [NoAlert EXCEPT !.title = "Success",
                            !.message = "Credential added to your wallet!"]
                    ELSE [NoAlert EXCEPT !.title = "Error", !.message = pr.error]
        /\ issueScreen' = [issueScreen EXCEPT !.isIssuing = IsIssuingAfter(pr)]
  /\ proc' = [proc EXCEPT ![p] = Idle]
  /\ UNCHANGED <<store, requests, ledger, clock, calls, faults, removed,
                 presented, home, verify, walletScreen, logs>>

\* the OK button of the Success alert: resetForm
ResetForm ==
  /\ alert.title = "Success"
  /\ issueScreen' = [issueScreen EXCEPT !.credentialType = "",
                                        !.additionalClaims = <<>>]
  /\ alert' = NoAlert
  /\ UNCHANGED <<store, proc, requests, ledger, clock, calls, faults, removed,
                 presented, home, verify, walletScreen, logs>>

----------------------------------------------------------------------------
(* utils/logger.js *)

\* The log lines the services and screens write do not change what they do,
\* so the actions above leave logs alone; the logger is modelled on its own,
\* called with any message in any order.

\* if (this.logs.length > 50)
maxLogs == 50

LogMessages == {"m1", "m2"}

\* logEntry; seq is the number of the log call since the last clearLogs, a
\* history field next to the timestamp and id the code stores
LogEntry(list, message, type) ==
  [message |-> message, type |-> type,
   seq |-> IF list = <<>> THEN 1 ELSE list[1].seq + 1]

\* this.logs.unshift(logEntry)
Unshift(list, logEntry) == <<logEntry>> \o list

\* this.logs.slice(start, end)
Slice(list, start, end) ==
  SubSeq(list, start + 1, IF end < Len(list) THEN end ELSE Len(list))

\* a log that never cuts the list
LoggerLogUncut(list, message, type) ==
  Unshift(list, LogEntry(list, message, type))

\* logger.log(message, type): this.logs afterwards
LoggerLog(list, message, type) ==
  LET added == Unshift(list, LogEntry(list, message, type))
  IN IF Len(added) > maxLogs THEN Slice(added, 0, maxLogs) ELSE added

\* this.logs after n calls of logger.info since the application started,
\* n up to the limit: the n entries, the last one logged in front
EarlierLogs(n) ==
  [i \in 1..n |-> [message |-> "m1", type |-> "info", seq |-> n - i + 1]]

\* one call of a logger method by the application
LoggerCall ==
  /\ calls < MaxCalls
  /\ calls' = calls + 1
  /\ UNCHANGED <<store, proc, requests, ledger, clock, faults, removed,
                 presented, home, verify, walletScreen, issueScreen, alert>>

\* logger.log(message) with the default type, or with a type of the caller's
Log ==
  /\ LoggerCall
  /\ \E message \in LogMessages, type \in {"info", "debug"} :
       logs' = LoggerLog(logs, message, type)

Info ==
  /\ LoggerCall
  /\ \E message \in LogMessages : logs' = LoggerLog(logs, message, "info")

Success ==
  /\ LoggerCall
  /\ \E message \in LogMessages : logs' = LoggerLog(logs, message, "success")

Error ==
  /\ LoggerCall
  /\ \E message \in LogMessages : logs' = LoggerLog(logs, message, "error")

Warning ==
  /\ LoggerCall
  /\ \E message \in LogMessages : logs' = LoggerLog(logs, message, "warning")

\* logger.clearLogs()
ClearLogs ==
  /\ LoggerCall
  /\ logs' = <<>>

----------------------------------------------------------------------------
(* utils/crypto.js called on its own *)

AddressChars == {"a", "A", "b", "B", "1"}

RECURSIVE Texts(_)
Texts(n) ==
  IF n = 0 THEN {<<>>}
  ELSE Texts(n - 1) \cup
       {Append(t, c) : t \in {u \in Texts(n - 1) : Len(u) = n - 1},
                       c \in AddressChars}

\* the addresses a caller can hand to createDID, in any letter case
AddressInputs ==
  {[kind |-> "address", text |-> t] : t \in Texts(MaxAddressLen) \ {<<>>}}

SeedInputs == 1..MaxKeys

\* createDID(address)
CallCreateDID(p) ==
  /\ proc[p].op = "idle"
  /\ \E address \in AddressInputs :
       proc' = [proc EXCEPT ![p] =
          [Idle EXCEPT !.op = "createDID", !.address = address,
                       !.result = createDID(address), !.pc = "done"]]
  /\ UNCHANGED <<store, requests, ledger, clock, calls, faults, removed,
                 presented, uiVars>>

\* a key function of crypto.js has run: its result, or the error of the
\* random source or of the wallet constructor
KeyFunctionResult(p, name, kp, f) ==
  proc' = [proc EXCEPT ![p] =
     IF f THEN Thrown([Idle EXCEPT !.op = name], "Error generating key pair")
     ELSE [Idle EXCEPT !.op = name, !.kp = kp, !.result = kp, !.pc = "done"]]

CallGenerateKeyPair(p) ==
  /\ proc[p].op = "idle"
  /\ \E f \in BOOLEAN, k \in 1..MaxKeys :
       /\ Fault(f)
       /\ KeyFunctionResult(p, "generateKeyPair", generateKeyPair(k), f)
  /\ UNCHANGED <<store, requests, ledger, clock, calls, removed, presented, uiVars>>

CallGenerateSimpleKeyPair(p) ==
  /\ proc[p].op = "idle"
  /\ \E f \in BOOLEAN, k \in 1..MaxKeys :
       /\ Fault(f)
       /\ KeyFunctionResult(p, "generateSimpleKeyPair", generateSimpleKeyPair(k), f)
  /\ UNCHANGED <<store, requests, ledger, clock, calls, removed, presented, uiVars>>

CallCreateWalletFromSeed(p) ==
  /\ proc[p].op = "idle"
  /\ \E f \in BOOLEAN, seed \in SeedInputs :
       /\ Fault(f)
       /\ KeyFunctionResult(p, "createWalletFromSeed", createWalletFromSeed(seed), f)
  /\ UNCHANGED <<store, requests, ledger, clock, calls, removed, presented, uiVars>>

CallRestoreFromMnemonic(p) ==
  /\ proc[p].op = "idle"
  /\ \E f \in BOOLEAN, mnemonic \in 1..MaxKeys :
       /\ Fault(f)
       /\ KeyFunctionResult(p, "restoreFromMnemonic", restoreFromMnemonic(mnemonic), f)
  /\ UNCHANGED <<store, requests, ledger, clock, calls, removed, presented, uiVars>>

Step(p) ==
  \/ CallCreateLocalDID(p) \/ GenerateKeyPair(p) \/ SaveWalletKeys(p)
  \/ RegisterSign(p) \/ RegisterPost(p)
  \/ CallClearWallet(p) \/ ClearWallet(p)
  \/ CallIssueCredentialLocally(p) \/ CallCreatePresentationLocally(p)
  \/ GetDID(p) \/ GetPrivateKey(p)
  \/ CreateVerifiableCredentialJwt(p) \/ CreateVerifiablePresentationJwt(p)
  \/ CallDeleteCredential(p) \/ GetCredentials(p) \/ SaveCredentials(p)
  \/ CallGetWalletInfo(p) \/ GetAddress(p) \/ GetPublicKey(p)
  \/ CallSignLocally(p) \/ SignLocallyGetKey(p) \/ SignLocallySign(p)
  \/ CallVpVerify(p) \/ VpVerifyPost(p) \/ CallVpCreate(p) \/ VpCreatePost(p)
  \/ Finish(p)

\* Two callers whose calls overlap at every await
Next == Tick \/ \E p \in Procs : Step(p)

Spec == Init /\ [][Next]_vars

\* One caller: every call runs to completion before the next one starts
NextSeq == Tick \/ Step("p1")

SpecSeq == Init /\ [][NextSeq]_vars

\* The Verify and Wallet tabs, one handler at a time
StepVerify(p) ==
  \/ FocusVerify(p) \/ LoadData(p) \/ PressCreatePresentation(p)
  \/ CreatePresentation(p)
  \/ FocusWallet(p) \/ LoadCredentials(p) \/ PressRemove(p) \/ HandleDelete(p)
  \/ IsWalletInitialized(p) \/ ReadCredentials(p)
  \/ GetDID(p) \/ GetAddress(p) \/ GetPublicKey(p) \/ GetPrivateKey(p)
  \/ CreateVerifiablePresentationJwt(p)
  \/ GetCredentials(p) \/ SaveCredentials(p)

NextVerify == ToggleCredentialSelection \/ SetChallenge \/ StepVerify("p1")

SpecVerify == Init /\ [][NextVerify]_vars

\* The Home tab, one handler at a time
NextHome ==
  \/ MountHome("p1") \/ CheckWallet("p1")
  \/ PressCreateDID("p1") \/ CreateDID("p1")
  \/ PressClear("p1") \/ HandleClearWallet("p1")
  \/ IsWalletInitialized("p1")
  \/ GetDID("p1") \/ GetAddress("p1") \/ GetPublicKey("p1")
  \/ GenerateKeyPair("p1") \/ SaveWalletKeys("p1")
  \/ RegisterSign("p1") \/ RegisterPost("p1")
  \/ ClearWallet("p1")

SpecHome == Init /\ [][NextHome]_vars

\* The functions of utils/crypto.js, called by two callers
StepCrypto(p) ==
  \/ CallCreateDID(p)
  \/ CallGenerateKeyPair(p) \/ CallGenerateSimpleKeyPair(p)
  \/ CallCreateWalletFromSeed(p) \/ CallRestoreFromMnemonic(p)
  \/ Finish(p)

NextCrypto == \E p \in Procs : StepCrypto(p)

SpecCrypto == Init /\ [][NextCrypto]_vars

\* The verify form of the Verify tab
NextVerifyForm ==
  \/ SetMode \/ SetVpJwt \/ SetChallenge \/ ClearVerifyForm
  \/ PressVerifyPresentation("p1") \/ VpVerifyPost("p1")
  \/ VerifyPresentation("p1")

SpecVerifyForm == Init /\ [][NextVerifyForm]_vars

\* The logger in a session that has logged nothing, one entry short of the
\* limit, or up to the limit
InitLogger ==
  /\ InitWallet
  /\ logs \in {EarlierLogs(n) : n \in {0, maxLogs - 1, maxLogs}}

NextLogger == Log \/ Info \/ Success \/ Error \/ Warning \/ ClearLogs

SpecLogger == InitLogger /\ [][NextLogger]_vars

\* What runs by itself once a handler has started: the awaited storage,
\* signing and network operations settle (requests time out), and the
\* handler resumes after each of them
ResumeBusy(p) ==
  \/ LoadWallet(p) \/ IssueCredential(p)
  \/ LoadData(p) \/ CreatePresentation(p) \/ VerifyPresentation(p)
  \/ CreateDID(p)
  \/ IsWalletInitialized(p) \/ ReadCredentials(p)
  \/ GetDID(p) \/ GetAddress(p) \/ GetPublicKey(p) \/ GetPrivateKey(p)
  \/ CreateVerifiableCredentialJwt(p) \/ CreateVerifiablePresentationJwt(p)
  \/ GetCredentials(p) \/ SaveCredentials(p)
  \/ GenerateKeyPair(p) \/ SaveWalletKeys(p)
  \/ RegisterSign(p) \/ RegisterPost(p)
  \/ VpVerifyPost(p)

\* The busy flag of a screen is read and written by that screen's handlers
\* only, so the user works on one screen while the other two are as they
\* were at the start
OnIssue == verify = VerifyInitial /\ home = HomeInitial
OnVerify == issueScreen = IssueInitial /\ home = HomeInitial
OnHome == issueScreen = IssueInitial /\ verify = VerifyInitial

\* What the user does on the Issue, Verify and Home screens
UserBusy(p) ==
  \/ OnIssue /\ MountIssue(p)
  \/ OnIssue /\ AddClaim
  \/ OnIssue /\ RemoveClaim
  \/ OnIssue /\ SetCredentialType
  \/ OnIssue /\ PressIssueCredential(p)
  \/ OnIssue /\ ResetForm
  \/ OnVerify /\ FocusVerify(p)
  \/ OnVerify /\ ToggleCredentialSelection
  \/ OnVerify /\ PressCreatePresentation(p)
  \/ OnVerify /\ SetMode
  \/ OnVerify /\ SetVpJwt
  \/ OnVerify /\ PressVerifyPresentation(p)
  \/ OnHome /\ PressCreateDID(p)

NextBusy == UserBusy("p1") \/ ResumeBusy("p1")

\* The handlers that set a busy flag; a started handler is never abandoned
SpecBusy == Init /\ [][NextBusy]_vars /\ WF_vars(ResumeBusy("p1"))

----------------------------------------------------------------------------
(* Properties *)

isWalletInitialized(s) == s[STORAGE_KEYS.WALLET_INITIALIZED] = Str("true")

Contains(list, jwt) == \E i \in 1..Len(list) : list[i].jwt = jwt

Secret(v) == v.kind = "privateKey"

\* a record one of whose fields is the private key
Leaks(record) == \E field \in DOMAIN record : Secret(record[field])

CredentialLeaks(c) ==
  \/ Secret(c.issuer) \/ Secret(c.subject) \/ Secret(c.jwt)
  \/ Secret(c.jwt.iss) \/ Secret(c.jwt.payload.sub)

BodyLeaks(r) ==
  CASE r.url = "/register-on-chain" -> Leaks(r.body)
    [] r.url = "/verify-vp" ->
         Secret(r.body.vpJwt) \/ Secret(r.body.challenge) \/ Secret(r.body.vpJwt.iss)
    [] r.url = "/create-vp" ->
         \/ Secret(r.body.holderDID) \/ Secret(r.body.challenge)
         \/ \E i \in 1..Len(r.body.credentials) :
              CredentialLeaks(r.body.credentials[i])

\* C1: the private key never appears in a request body handed to the API
\* client, in a stored credential record, or in a value that createLocalDID
\* or getWalletInfo returns; only signatures made with it leave the store.
C1_PrivateKeyStaysOnDevice ==
  /\ \A r \in requests : ~BodyLeaks(r)
  /\ \A i \in 1..Len(StoredCredentials(store)) :
       ~CredentialLeaks(StoredCredentials(store)[i])
  /\ \A p \in Procs :
       (proc[p].op \in {"createLocalDID", "getWalletInfo"} /\ proc[p].pc = "done")
         => ~Leaks(proc[p].result)

\* a registration request was sent, a private key is in the store, and an
\* issueCredentialLocally call has returned with its credential in the wallet
C1_Witness ==
  /\ \E r \in requests : r.url = "/register-on-chain"
  /\ Secret(store[STORAGE_KEYS.PRIVATE_KEY])
  /\ \E p \in Procs : proc[p].op = "issueCredentialLocally" /\ proc[p].pc = "done"
  /\ StoredCredentials(store) # <<>>

\* the DID that belongs to the key a token was signed with
SignerDID(jwt) == createDID(Wallet(jwt.key).address)

\* C2: every credential or presentation token asserts as issuer / holder
\* (and, for a credential, as subject) the DID of the private key that signed
\* it, in every interleaving with createLocalDID and clearWallet.
C2_TokenAssertsSignerDID ==
  \A p \in Procs :
    (/\ proc[p].op \in {"issueCredentialLocally", "createPresentationLocally"}
     /\ proc[p].op = "issueCredentialLocally" => proc[p].claims # {}
     /\ proc[p].jwt # None)
      => /\ proc[p].jwt.iss = SignerDID(proc[p].jwt)
         /\ proc[p].op = "issueCredentialLocally"
              => proc[p].jwt.payload.sub = SignerDID(proc[p].jwt)

\* C3: when two overlapping issueCredentialLocally calls have both completed,
\* the stored list holds both new credentials and every earlier one.
C3_ConcurrentIssuesBothStored ==
  (/\ \A p \in Procs :
        proc[p].op = "issueCredentialLocally" /\ proc[p].pc = "done"
   /\ \A p \in Procs : proc[p].claims # {}
   /\ faults = 0 /\ ~removed)
    => LET list == StoredCredentials(store)
           earlier == proc["p1"].before
       IN /\ \A p \in Procs : Contains(list, proc[p].jwt)
          /\ \A i \in 1..Len(earlier) : Contains(list, earlier[i].jwt)
          /\ Len(list) >= Len(earlier) + 2

\* C4: no presentation token is ever produced over an empty credential set,
\* whatever the Verify and Wallet tabs do before the Create Presentation
\* press (select, remove the selected credential, reload, create), and with
\* every storage access succeeding.
C4_NoPresentationOverEmptySet ==
  faults = 0 =>
    \A jwt \in presented : Len(jwt.payload.vp.verifiableCredential) > 0

C6_NoWalletFailsBeforeSigning ==
  \A p \in Procs :
    proc[p].op \in {"issueCredentialLocally", "createPresentationLocally"}
      => /\ (proc[p].pc \in {"sign", "getCredentials", "saveCredentials", "done"}
               \/ proc[p].jwt # None)
              => (~Falsy(proc[p].did) /\ ~Falsy(proc[p].privateKey))
         /\ proc[p].error = "No wallet found"
              => /\ proc[p].pc = "threw"
                 /\ proc[p].jwt = None
                 /\ proc[p].result = None
                 /\ proc[p].wrote = {}

\* a call that read a DID but no private key has been refused
C6_Witness ==
  \E p \in Procs :
    /\ proc[p].op \in {"issueCredentialLocally", "createPresentationLocally"}
    /\ proc[p].error = "No wallet found"
    /\ ~Falsy(proc[p].did)

\* C7: once key generation and saveWalletKeys have succeeded, createLocalDID
\* returns {did, address, publicKey} of the generated pair and the wallet is
\* initialized in storage, whether the registrar request succeeds or fails.
C7_LocalCreationSurvivesRegistrarFailure ==
  \A p \in Procs :
    proc[p].op = "createLocalDID"
      => /\ proc[p].pc = "threw"
              => proc[p].error \in {"Error generating key pair",
                                    "Failed to save wallet keys"}
         /\ proc[p].pc \in {"signData", "post"} => isWalletInitialized(store)
         /\ proc[p].pc = "done"
              => /\ proc[p].result = [did |-> proc[p].kp.did,
                                      address |-> proc[p].kp.address,
                                      publicKey |-> proc[p].kp.publicKey]
                 /\ proc[p].reg \in {"ok", "failed"}
                 /\ isWalletInitialized(store)
                 /\ store[STORAGE_KEYS.DID] = proc[p].kp.did

\* createLocalDID has returned although the registrar request failed
C7_Witness ==
  \E p \in Procs :
    /\ proc[p].op = "createLocalDID" /\ proc[p].pc = "done"
    /\ proc[p].reg = "failed" /\ proc[p].posts = 1

\* C8: a registrar failure is distinguishable to the caller: when the Home
\* screen reports a new identity as registered on the blockchain after the
\* registration request for it was sent, the registrar has accepted it.
C8_RegisteredAlertMeansRegistered ==
  (/\ alert.title = "Identity Created"
   /\ alert.message = "Registered on blockchain!"
   /\ \E r \in requests : r.body.did = alert.did)
    => alert.did \in ledger

\* C9: a createLocalDID call sends at most one registrar request, and none
\* after that request has failed.
C9_SingleRegistrarRequest ==
  \A p \in Procs :
    /\ proc[p].posts <= 1
    /\ (proc[p].op = "createLocalDID" /\ proc[p].reg = "failed")
         => proc[p].pc = "done"

\* the one request of a call has failed and the call has ended
C9_Witness ==
  \E p \in Procs :
    /\ proc[p].op = "createLocalDID" /\ proc[p].reg = "failed"
    /\ proc[p].posts = 1 /\ proc[p].pc = "done"

\* C10: issueCredentialLocally returns a credential only if the token was
\* signed and the credential written to storage; if signing or the storage
\* write fails it throws, returns nothing and the stored list is the list
\* from before the call.
C10_NoPartialCredential ==
  \A p \in Procs :
    proc[p].op = "issueCredentialLocally"
      => /\ proc[p].pc = "done" => proc[p].result # None
         /\ proc[p].result # None
              => /\ proc[p].pc = "done"
                 /\ proc[p].jwt # None
                 /\ proc[p].result.jwt = proc[p].jwt
                 /\ STORAGE_KEYS.CREDENTIALS \in proc[p].wrote
                 /\ Contains(StoredCredentials(store), proc[p].jwt)
         /\ proc[p].pc = "threw"
              => /\ proc[p].result = None
                 /\ proc[p].wrote = {}
                 /\ StoredCredentials(store) = proc[p].before

\* the token was signed, the storage write failed, and the call threw with
\* an earlier credential in the wallet
C10_Witness ==
  \E p \in Procs :
    /\ proc[p].op = "issueCredentialLocally" /\ proc[p].pc = "threw"
    /\ proc[p].jwt # None
    /\ proc[p].before # <<>>

\* C11: in every reachable state the credentials of the stored list have
\* pairwise distinct ids, also when two are added within one millisecond
\* (no storage access failing).
C11_CredentialIdsUnique ==
  faults = 0 =>
    LET list == StoredCredentials(store)
    IN \A i, j \in 1..Len(list) : list[i].id = list[j].id => i = j

\* the stored list holds the record c
InList(list, c) == \E i \in 1..Len(list) : list[i] = c

\* C12: with every storage access succeeding and one operation at a time, a
\* stored credential stays in the list with the same id, issuer, subject,
\* data and jwt in every step, except the save of a deleteCredential called
\* with its id and the steps of clearWallet.
C12_StoredCredentialImmutable ==
  [][faults' = 0 =>
       \A i \in 1..Len(StoredCredentials(store)) :
         LET c == StoredCredentials(store)[i]
         IN \/ InList(StoredCredentials(store'), c)
            \/ /\ proc["p1"].op = "deleteCredential"
               /\ proc["p1"].pc = "saveCredentials"
               /\ proc["p1"].credentialId = c.id
            \/ proc["p1"].op = "clearWallet"]_vars

\* a second credential has been issued and saved next to an earlier one
C12_Witness ==
  /\ faults = 0
  /\ proc["p1"].op = "issueCredentialLocally" /\ proc["p1"].pc = "done"
  /\ proc["p1"].before # <<>>
  /\ Len(StoredCredentials(store)) = Len(proc["p1"].before) + 1

\* C13: the verifiableCredential array of a signed presentation has the
\* length of the credentials handed in, and its i-th element is the token
\* of the i-th credential.
C13_PresentedOrderPreserved ==
  \A p \in Procs :
    (proc[p].op = "createPresentationLocally" /\ proc[p].jwt # None)
      => LET tokens == proc[p].jwt.payload.vp.verifiableCredential
         IN /\ Len(tokens) = Len(proc[p].credentials)
            /\ \A i \in 1..Len(tokens) : tokens[i] = proc[p].credentials[i].jwt

\* two different credentials were presented, the newer one first
C13_Witness ==
  \E p \in Procs :
    /\ proc[p].op = "createPresentationLocally" /\ proc[p].pc = "done"
    /\ Len(proc[p].credentials) = 2
    /\ proc[p].credentials[1].jwt # proc[p].credentials[2].jwt
    /\ proc[p].credentials[1] = StoredCredentials(store)[2]

\* C14: the payload of a presentation carries a nonce equal to the challenge
\* when a challenge was handed to createPresentationLocally, and no nonce
\* field when the challenge was undefined, as it is when the Verify screen's
\* challenge text is empty after trimming.
C14_NonceIffChallenge ==
  \A p \in Procs :
    (proc[p].op = "createPresentationLocally" /\ proc[p].payload # None)
      => /\ proc[p].challenge = Undefined => proc[p].payload.nonce = Absent
         /\ proc[p].challenge # Undefined
              => /\ proc[p].challenge.s # ""
                 /\ proc[p].payload.nonce = proc[p].challenge
         /\ proc[p].jwt # None => proc[p].jwt.payload = proc[p].payload

\* the Verify screen has produced one presentation with a nonce and one
\* without
C14_Witness ==
  /\ \E jwt \in presented : jwt.payload.nonce = Absent
  /\ \E jwt \in presented : jwt.payload.nonce = Str("c1")
  /\ proc["p1"].handler = "createPresentation"

UpperChars == {"A", "B"}

\* two texts that differ at most in the case of their letters
SameLetters(a, b) ==
  /\ Len(a) = Len(b)
  /\ \A i \in 1..Len(a) :
       a[i] = b[i] \/ {a[i], b[i]} \in {{"a", "A"}, {"b", "B"}}

\* C18: createDID gives the same string for the same address and for two
\* addresses that differ only in letter case, and the address part of that
\* string has no upper-case letter and the letters of the address.
C18_CreateDIDCanonical ==
  \A p, q \in Procs :
    (proc[p].op = "createDID" /\ proc[q].op = "createDID")
      => LET did == proc[p].result.text
             address == proc[p].address.text
         IN /\ SameLetters(address, proc[q].address.text)
                 => proc[p].result = proc[q].result
            /\ did[1] = "did:ethr:VoltusWave:"
            /\ Len(did) = 1 + Len(address)
            /\ SameLetters(SubSeq(did, 2, Len(did)), address)
            /\ \A i \in 2..Len(did) : did[i] \notin UpperChars

\* createDID has been called with two addresses that differ in case only
C18_Witness ==
  /\ proc["p1"].op = "createDID" /\ proc["p2"].op = "createDID"
  /\ proc["p1"].address # proc["p2"].address
  /\ SameLetters(proc["p1"].address.text, proc["p2"].address.text)
  /\ \E i \in 1..Len(proc["p1"].address.text) :
       proc["p1"].address.text[i] \in UpperChars

\* C19: every function that creates or restores a key pair returns as did
\* the string createDID(address), of the form
\* did:<method>:<network>:<lower-cased address>.
C19_DIDOneToOneWithAddress ==
  \A p \in Procs :
    (/\ proc[p].op \in {"generateKeyPair", "generateSimpleKeyPair",
                        "createWalletFromSeed", "restoreFromMnemonic"}
     /\ proc[p].pc = "done")
      => proc[p].result.did = createDID(proc[p].result.address)

\* C20: no step of createPresentationLocally writes to secure storage: the
\* stored keys, DID and credential list are the same after each of its steps
\* as before, whether the call returns a token or throws.
C20_PresentationNotPersisted ==
  [][\A p \in Procs :
       (/\ proc[p].op = "createPresentationLocally"
        /\ proc'[p] # proc[p]
        /\ proc'[p].op = "createPresentationLocally")
         => /\ store' = store
            /\ proc'[p].wrote = {}]_vars

\* one presentation call has returned a token and one has thrown, with a
\* wallet in storage
C20_Witness ==
  /\ \E p \in Procs :
       proc[p].op = "createPresentationLocally" /\ proc[p].pc = "done"
  /\ \E p \in Procs :
       proc[p].op = "createPresentationLocally" /\ proc[p].pc = "threw"
  /\ isWalletInitialized(store)

RecoverableAlgs == {"ES256K-R"}

\* C22: every signature the wallet produces is made in a recoverable mode:
\* the ownership proof of signData and signLocally as an Ethereum message
\* signature, the credential and presentation tokens with the recoverable
\* token algorithm.
C22_RecoverableSignaturesThroughout ==
  \A p \in Procs :
    /\ proc[p].signature # None => proc[p].signature.scheme = "eth_signMessage"
    /\ proc[p].jwt.kind = "jwt" => proc[p].jwt.alg \in RecoverableAlgs

\* the four wallet items are stored and come from one key pair
OneKeyPair(s) ==
  \E k \in 1..MaxKeys :
    LET kp == generateKeyPair(k)
    IN /\ s[STORAGE_KEYS.PRIVATE_KEY] = kp.privateKey
       /\ s[STORAGE_KEYS.PUBLIC_KEY] = kp.publicKey
       /\ s[STORAGE_KEYS.ADDRESS] = kp.address
       /\ s[STORAGE_KEYS.DID] = kp.did

\* C23: whenever the initialized flag is set and no call is in flight, the
\* private key, public key, address and DID are all stored and belong to
\* one generated key pair, whatever writes of saveWalletKeys and deletes of
\* clearWallet have failed before.
C23_InitializedMeansConsistent ==
  (isWalletInitialized(store) /\ \A p \in Procs : proc[p].op = "idle")
    => OneKeyPair(store)

\* C24: when addCredential has completed, also after a failed read of the
\* list, the stored list holds every credential stored before the call.
C24_ReadFailureKeepsCredentials ==
  (proc["p1"].op = "issueCredentialLocally" /\ proc["p1"].pc = "done")
    => \A i \in 1..Len(proc["p1"].before) :
         InList(StoredCredentials(store), proc["p1"].before[i])

\* C25: the credential issueCredentialLocally returns has the id of the
\* record addCredential stored for it (no storage access failing).
C25_ReturnedIdIsStoredId ==
  (proc["p1"].op = "issueCredentialLocally" /\ proc["p1"].pc = "done"
     /\ faults = 0)
    => \E i \in 1..Len(StoredCredentials(store)) :
         /\ StoredCredentials(store)[i].jwt = proc["p1"].result.jwt
         /\ StoredCredentials(store)[i].id = proc["p1"].result.id

\* C26: when clearWallet has returned true no wallet item is left in
\* storage, also when single deletes have failed.
C26_ClearedMeansEmpty ==
  (proc["p1"].op = "clearWallet" /\ proc["p1"].pc = "done")
    => /\ \A key \in StorageKeys : store[key] = None
       /\ ~isWalletInitialized(store)
       /\ StoredCredentials(store) = <<>>

\* C28: when deleteCredential(id) has returned, the stored list is the list
\* from before the call without the credentials whose id is id, the others
\* unchanged and in their order.
C28_DeleteRemovesExactlyId ==
  (proc["p1"].op = "deleteCredential" /\ proc["p1"].pc = "done")
    => StoredCredentials(store) =
         Filter(proc["p1"].before, proc["p1"].credentialId)

\* C27: when a loadData of the Verify screen ends (every storage access
\* succeeding), every id in selectedCredentials is the id of a credential
\* in the list loadData has just loaded.
C27_SelectionWithinLoadedList ==
  [][(/\ proc["p1"].handler = "loadData"
      /\ proc["p1"].pc = "done"
      /\ proc'["p1"].op = "idle"
      /\ faults = 0)
       => \A i \in 1..Len(verify'.selectedCredentials) :
            \E j \in 1..Len(verify'.credentials) :
              verify'.credentials[j].id = verify'.selectedCredentials[i]]_vars

\* C21: however the verify request ends (verified, not verified, thrown),
\* verifyPresentation ends with a verification result set: the response on
\* a return, verified = false with the error text on a throw; the handler
\* ends normally with the busy flag cleared.
C21_VerificationFailureIsData ==
  [][(proc["p1"].handler = "verifyPresentation"
        /\ proc["p1"].pc \in {"done", "threw"}
        /\ proc'["p1"] # proc["p1"])
       => /\ proc'["p1"] = Idle
          /\ ~verify'.isProcessing
          /\ verify'.verificationResult # None
          /\ proc["p1"].pc = "done"
               => verify'.verificationResult = proc["p1"].result
          /\ proc["p1"].pc = "threw"
               => /\ verify'.verificationResult.verified = FALSE
                  /\ verify'.verificationResult.error = proc["p1"].error]_vars

C21_Witness ==
  /\ proc["p1"].op = "idle"
  /\ verify.verificationResult # None
  /\ ~verify.verificationResult.verified
  /\ alert.title = "Error"
  /\ alert.message = "Verification failed"

\* C30: after any sequence of log, info, success, error, warning and
\* clearLogs calls the logger holds at most 50 entries, newest first, and
\* they are the most recent entries logged since the last clearLogs: none
\* is missing unless more than 50 were logged.
C30_LogHoldsNewestFifty ==
  /\ Len(logs) <= maxLogs
  /\ \A i \in 1..Len(logs) : logs[i].seq = logs[1].seq - (i - 1)
  /\ logs # <<>> =>
       Len(logs) = IF logs[1].seq < maxLogs THEN logs[1].seq ELSE maxLogs

C30_Witness ==
  /\ Len(logs) = maxLogs
  /\ logs[1].seq > maxLogs
  /\ logs[1].type = "warning"

\* C29: every handler that sets a busy flag resets it, whether the service
\* call returns or throws: isIssuing is set only while issueCredential
\* runs, isProcessing only while createPresentation or verifyPresentation
\* runs, isCreatingDID only while createDID runs, and a handler that has
\* started eventually ends; so each flag that is true is eventually false.
C29_BusyFlagsReset ==
  /\ [](issueScreen.isIssuing => proc["p1"].handler = "issueCredential")
  /\ [](verify.isProcessing =>
          proc["p1"].handler \in {"createPresentation", "verifyPresentation"})
  /\ [](home.isCreatingDID => proc["p1"].handler = "createDID")
  /\ (proc["p1"].handler # "") ~> (proc["p1"].handler = "")

C29_Witness ==
  /\ proc["p1"].op = "idle"
  /\ ~issueScreen.isIssuing
  /\ issueScreen.walletInfo # None
  /\ alert.title = "Error"
  /\ alert.message \in {"signing failed", "Failed to save credentials"}

====
